---- MODULE Spec2Model ----
(***************************************************************************)
(* The `merge` function of the VRL standard library (merge.rs): the        *)
(* function contract (parameters / compile), its evaluation (resolve) and  *)
(* the recursive engine (merge_maps), over a heap of shared value cells    *)
(* (SharedValue = a reference-counted RefCell holding a Value).            *)
(***************************************************************************)
EXTENDS Integers, Sequences, FiniteSets, TLC

VARIABLES
    heap,       \* cell id -> Value currently held by that cell
    bor,        \* cell id -> RefCell borrow flag: -1 writer, n >= 0 readers
    prev,       \* the heap as it was when the last resolve call started
    last,       \* the last resolve call: its operands and its outcome
    everTo,     \* cells that a successful call received as `to`
    everFrom,   \* cells that a successful call received as `from`
    calls,      \* number of resolve calls made so far
    compiled    \* the call site: supplied arguments and the binding status

vars == <<heap, bor, prev, last, everTo, everFrom, calls, compiled>>

\* Number of resolve calls explored per behaviour.
MaxCalls == 2

-----------------------------------------------------------------------------
(* Values and the heap of cells *)

EmptyMap == [k \in {} |-> 0]

Object(m) == [kind |-> "object", val |-> "", map |-> m]
Bytes(s) == [kind |-> "bytes", val |-> s, map |-> EmptyMap]
Boolean(s) == [kind |-> "boolean", val |-> s, map |-> EmptyMap]

\* BTreeMap iteration order: ascending by key.
KeyOrder == <<"a", "b">>

\* Two unrelated records (in the shape of the `shallow` / `deep` tests), an
\* extra nested empty object and an empty root object.
InitHeap ==
    <<  Object([k \in {"a"} |-> 3]),                              \* 1
        Object([k \in {"a", "b"} |-> IF k = "a" THEN 4 ELSE 5]),  \* 2
        Object([k \in {"a"} |-> 6]),                              \* 3
        Object([k \in {"b"} |-> 7]),                              \* 4
        Object(EmptyMap),                                         \* 5
        Bytes("val1"),                                            \* 6
        Boolean("true"),                                          \* 7
        Object(EmptyMap) >>                                       \* 8

Cells == DOMAIN InitHeap

Succ(h, c) == {h[c].map[k] : k \in DOMAIN h[c].map}

RECURSIVE ReachFrom(_, _, _)
ReachFrom(h, frontier, seen) ==
    IF frontier \subseteq seen THEN seen
    ELSE LET new == frontier \ seen
         IN ReachFrom(h, UNION {Succ(h, c) : c \in new}, seen \cup new)

\* Cells reachable from c, c included.
Reach(h, c) == ReachFrom(h, {c}, {})

Acyclic(h) == \A c \in DOMAIN h : c \notin ReachFrom(h, Succ(h, c), {})

\* The content of a cell as a tree of plain values (what `==` on Value sees).
RECURSIVE Content(_, _)
Content(h, c) ==
    IF h[c].kind = "object"
    THEN Object([k \in DOMAIN h[c].map |-> Content(h, h[c].map[k])])
    ELSE h[c]

-----------------------------------------------------------------------------
(* RefCell access discipline *)

CanBorrow(b, c) == b[c] >= 0
CanBorrowMut(b, c) == b[c] = 0

borrow(b, c) == [b EXCEPT ![c] = @ + 1]
borrow_mut(b, c) == [b EXCEPT ![c] = -1]
drop_ref(b, c) == [b EXCEPT ![c] = @ - 1]
drop_ref_mut(b, c) == [b EXCEPT ![c] = 0]

NoBorrows == [c \in Cells |-> 0]

-----------------------------------------------------------------------------
(* merge_maps: the recursive engine *)

\* An engine state: the heap, the borrow flags, and the panic raised if any.
EngineState(h, b, f) == [heap |-> h, bor |-> b, fail |-> f]

\* map1.insert(key2.clone(), value2.clone()): the entry of the map held by
\* cell map1 becomes an alias of the cell value2.
insert(h, map1, key2, value2) ==
    [h EXCEPT ![map1] =
        Object([k \in DOMAIN h[map1].map \cup {key2} |->
                    IF k = key2 THEN value2 ELSE h[map1].map[k]])]

MatchDeepIgnoringFlag(deep, has1, v2) == has1 /\ v2.kind = "object"

\* The arm (true, Some(child1), Value::Object(ref child2)).
MatchDeep(deep, has1, v2) == deep /\ has1 /\ v2.kind = "object"

RECURSIVE merge_entry(_, _, _, _, _), merge_loop(_, _, _, _, _)

\* One iteration of the loop body, for the entry (key2, value2) of map2.
merge_entry(st, map1, map2, deep, key2) ==
    LET value2 == st.heap[map2].map[key2]
        has1 == key2 \in DOMAIN st.heap[map1].map
    IN  IF ~CanBorrow(st.bor, value2)
        THEN EngineState(st.heap, st.bor, "BorrowError")
        ELSE
        LET b2 == borrow(st.bor, value2)
        IN  IF MatchDeep(deep, has1, st.heap[value2])
            THEN
                LET child1 == st.heap[map1].map[key2]
                IN  IF ~CanBorrowMut(b2, child1)
                    THEN EngineState(st.heap, b2, "BorrowMutError")
                    ELSE
                    LET b1 == borrow_mut(b2, child1)
                    IN  IF st.heap[child1].kind = "object"
                        THEN
                            LET r == merge_loop(EngineState(st.heap, b1, "none"),
                                                child1, value2, deep, 1)
                            IN  IF r.fail # "none" THEN r
                                ELSE EngineState(r.heap,
                                        drop_ref(drop_ref_mut(r.bor, child1), value2),
                                        "none")
                        ELSE EngineState(
                                insert(st.heap, map1, key2, value2),
                                drop_ref(drop_ref_mut(b1, child1), value2),
                                "none")
            ELSE EngineState(insert(st.heap, map1, key2, value2),
                             drop_ref(b2, value2), "none")

\* for (key2, value2) in map2.iter(), from the i-th key on.
merge_loop(st, map1, map2, deep, i) ==
    IF st.fail # "none" \/ i > Len(KeyOrder) THEN st
    ELSE IF KeyOrder[i] \notin DOMAIN st.heap[map2].map
         THEN merge_loop(st, map1, map2, deep, i + 1)
         ELSE merge_loop(merge_entry(st, map1, map2, deep, KeyOrder[i]),
                         map1, map2, deep, i + 1)

merge_maps(st, map1, map2, deep) == merge_loop(st, map1, map2, deep, 1)

-----------------------------------------------------------------------------
(* Operand expressions *)

Ref(c) == [kind |-> "ref", cell |-> c, val |-> FALSE]
Lit(v) == [kind |-> "lit", cell |-> 0, val |-> v]
Failing == [kind |-> "err", cell |-> 0, val |-> FALSE]

\* The cells that the program's variables and paths name: the roots 1, 2, 8,
\* the nested objects 3 and 5 and the string 6.
Named == {1, 2, 3, 5, 6, 8}

\* `to` and `from`: an expression resolving to a named cell, or failing.
OperandExprs == {Ref(c) : c \in Named} \cup {Failing}
\* `deep`: a boolean literal, an expression resolving to the object 1, to the
\* string 6 or to the boolean 7, or a failing expression.
DeepExprs == {Lit(TRUE), Lit(FALSE), Failing} \cup {Ref(c) : c \in {1, 6, 7}}

\* expr!(false), the default of `deep`.
DefaultDeep == Lit(FALSE)

-----------------------------------------------------------------------------
(* MergeFn::resolve *)

Outcome(h, b, outcome, err, at, result, to_value, from_value, engine) ==
    [heap |-> h, bor |-> b, outcome |-> outcome, err |-> err, at |-> at,
     result |-> result, to_value |-> to_value, from_value |-> from_value,
     engine |-> engine]

returned_copy(to_value) == Cardinality(Cells) + 1

\* let returned = to_value.clone(): another handle on the same cell.
returned(to_value) == to_value

\* Leaving the scope of resolve drops the guards taken in it.
DropGuards(b, guards) == [c \in DOMAIN b |-> IF c \in guards THEN 0 ELSE b[c]]

resolve(h, b, to, from, deep) ==
    IF to.kind = "err"
    THEN Outcome(h, b, "error", "ExpressionError", "resolve", 0, 0, 0, FALSE)
    ELSE
    LET to_value == to.cell IN
    IF ~CanBorrowMut(b, to_value)
    THEN Outcome(h, b, "panic", "BorrowMutError", "resolve", 0, to_value, 0, FALSE)
    ELSE
    LET b1 == borrow_mut(b, to_value) IN
    IF h[to_value].kind # "object"
    THEN Outcome(h, b1, "panic", "UnwrapNone", "resolve", 0, to_value, 0, FALSE)
    ELSE IF from.kind = "err"
    THEN Outcome(h, DropGuards(b1, {to_value}), "error", "ExpressionError",
                 "resolve", 0, to_value, 0, FALSE)
    ELSE
    LET from_value == from.cell IN
    IF ~CanBorrow(b1, from_value)
    THEN Outcome(h, b1, "panic", "BorrowError", "resolve", 0,
                 to_value, from_value, FALSE)
    ELSE
    LET b2 == borrow(b1, from_value)
        guards == {to_value, from_value}
    IN
    IF h[from_value].kind # "object"
    THEN Outcome(h, DropGuards(b2, guards), "error", "TypeError", "resolve", 0,
                 to_value, from_value, FALSE)
    ELSE IF deep.kind = "err"
    THEN Outcome(h, DropGuards(b2, guards), "error", "ExpressionError",
                 "resolve", 0, to_value, from_value, FALSE)
    ELSE IF deep.kind = "ref" /\ ~CanBorrow(b2, deep.cell)
    THEN Outcome(h, b2, "panic", "BorrowError", "resolve", 0,
                 to_value, from_value, FALSE)
    ELSE IF deep.kind = "ref" /\ h[deep.cell].kind # "boolean"
    THEN Outcome(h, DropGuards(b2, guards), "error", "TypeError", "resolve", 0,
                 to_value, from_value, FALSE)
    ELSE
    LET d == IF deep.kind = "lit" THEN deep.val ELSE h[deep.cell].val = "true"
        st == merge_maps(EngineState(h, b2, "none"), to_value, from_value, d)
    IN
    IF st.fail # "none"
    THEN Outcome(st.heap, st.bor, "panic", st.fail, "merge_maps", 0,
                 to_value, from_value, TRUE)
    ELSE Outcome(st.heap, DropGuards(st.bor, guards), "ok", "", "none",
                 returned(to_value), to_value, from_value, TRUE)

-----------------------------------------------------------------------------
(* Merge::parameters and Merge::compile *)

Parameters ==
    { [keyword |-> "to",   kind |-> "object",  required |-> FALSE],
      [keyword |-> "from", kind |-> "object",  required |-> TRUE],
      [keyword |-> "deep", kind |-> "boolean", required |-> FALSE] }

Keywords == {p.keyword : p \in Parameters}

\* The compiler's check of a call against the declared parameters, made
\* before Merge::compile runs.
MissingRequired(args) == {p.keyword : p \in {q \in Parameters : q.required}} \ args

\* arguments.required(keyword): hands back the expression; it has no way to
\* report an absent argument other than to panic.
required(args, keyword) == IF keyword \in args THEN "expr" ELSE "panic"

\* Merge::compile, on the set of keywords the call site supplies.
compile(args) ==
    IF MissingRequired(args) # {} THEN "MissingRequiredArgument"
    ELSE IF required(args, "to") = "panic" THEN "panic"
    ELSE IF required(args, "from") = "panic" THEN "panic"
    ELSE "ok"

-----------------------------------------------------------------------------
(* The state machine *)

NoCall ==
    [to |-> Failing, from |-> Failing, deep |-> Failing, outcome |-> "none",
     err |-> "", at |-> "none", result |-> 0, to_value |-> 0, from_value |-> 0,
     engine |-> FALSE]

Init ==
    /\ heap = InitHeap
    /\ bor = NoBorrows
    /\ prev = InitHeap
    /\ last = NoCall
    /\ everTo = {}
    /\ everFrom = {}
    /\ calls = 0
    /\ compiled = [status |-> "none", args |-> {}]

\* A call site merge(...) supplying the arguments `args` is compiled.
Compile(args) ==
    /\ compiled.status = "none"
    /\ compiled' = [status |-> compile(args), args |-> args]
    /\ UNCHANGED <<heap, bor, prev, last, everTo, everFrom, calls>>

\* One evaluation of the compiled call.  A failure (an error returned or a
\* panic) is surfaced to the enclosing program and ends its run; the caller
\* never builds a cyclic structure.
Resolve(to, from, deep) ==
    /\ compiled.status = "ok"
    /\ last.outcome \in {"none", "ok"}
    /\ calls < MaxCalls
    /\ "deep" \notin compiled.args => deep = DefaultDeep
    /\ LET r == resolve(heap, bor, to, from, deep)
       IN  /\ Acyclic(r.heap)
           /\ heap' = r.heap
           /\ bor' = r.bor
           /\ last' = [to |-> to, from |-> from, deep |-> deep,
                       outcome |-> r.outcome, err |-> r.err, at |-> r.at,
                       result |-> r.result, to_value |-> r.to_value,
                       from_value |-> r.from_value, engine |-> r.engine]
           /\ everTo' = IF r.outcome = "ok" THEN everTo \cup {r.to_value} ELSE everTo
           /\ everFrom' = IF r.outcome = "ok" THEN everFrom \cup {r.from_value}
                          ELSE everFrom
    /\ prev' = heap
    /\ calls' = calls + 1
    /\ UNCHANGED compiled

Next ==
    \/ \E args \in SUBSET Keywords : Compile(args)
    \/ \E to \in OperandExprs, from \in OperandExprs, deep \in DeepExprs :
            Resolve(to, from, deep)

Spec == Init /\ [][Next]_vars

-----------------------------------------------------------------------------
(* The claims *)

\* The last call reached the engine with these operands.
ToCell == last.to_value
FromCell == last.from_value
\* The value `deep` resolved to in the last call (it reached the engine).
LastDeep ==
    IF last.deep.kind = "lit" THEN last.deep.val
    ELSE prev[last.deep.cell].val = "true"

\* The reference deep merge DM(D, S) on plain values.
RECURSIVE DM(_, _)
DM(D, S) ==
    Object([k \in DOMAIN D.map \cup DOMAIN S.map |->
        IF k \notin DOMAIN S.map THEN D.map[k]
        ELSE IF k \in DOMAIN D.map /\ D.map[k].kind = "object"
                /\ S.map[k].kind = "object"
             THEN DM(D.map[k], S.map[k])
             ELSE S.map[k]])

\* C1: after a completed deep merge the destination's content equals
\* DM(D, S) of the contents D and S that destination and source had before.
C1_DeepMergeEqualsDM ==
    (last.outcome = "ok" /\ LastDeep) =>
        Content(heap, ToCell) = DM(Content(prev, ToCell), Content(prev, FromCell))

C3_NonObjectToIsTypeError ==
    (last.outcome # "none" /\ last.to.kind = "ref"
        /\ prev[last.to.cell].kind # "object")
    => (last.outcome = "error" /\ last.err = "TypeError")

\* C4: a successful call returns the very cell `to` resolved to, merged in
\* place: the cell holds the union of the keys, and every object that held an
\* alias of the destination still holds that same cell.
C4_ReturnsDestinationCell ==
    last.outcome = "ok" =>
        /\ last.result = ToCell
        /\ last.result \in Cells
        /\ DOMAIN heap[ToCell].map =
                DOMAIN prev[ToCell].map \cup DOMAIN prev[FromCell].map
        /\ \A p \in Cells : \A k \in DOMAIN prev[p].map :
                prev[p].map[k] = ToCell =>
                    (k \in DOMAIN heap[p].map /\ heap[p].map[k] = last.result)

\* A successful call changed a destination that another object aliases.
C4_Witness ==
    /\ last.outcome = "ok"
    /\ heap[ToCell] # prev[ToCell]
    /\ \E p \in Cells : ToCell \in Succ(heap, p)

\* C5: merging into a destination whose content already equals the source's
\* (distinct cells, either value of `deep`) completes and leaves the
\* destination's content as it was.
C5_Idempotent ==
    (/\ last.outcome # "none"
     /\ last.to.kind = "ref" /\ last.from.kind = "ref" /\ last.deep.kind = "lit"
     /\ last.to.cell # last.from.cell
     /\ prev[last.to.cell].kind = "object"
     /\ Content(prev, last.to.cell) = Content(prev, last.from.cell))
    => (/\ last.outcome = "ok"
        /\ Content(heap, last.to.cell) = Content(prev, last.to.cell))

\* C6: binding succeeds exactly when `from` is supplied, and fails with
\* MissingRequiredArgument when it is not.
C6_BindsIffFromSupplied ==
    compiled.status # "none" =>
        /\ (compiled.status = "ok") <=> ("from" \in compiled.args)
        /\ "from" \notin compiled.args =>
                compiled.status = "MissingRequiredArgument"

\* C7: once invoked, the engine runs to completion.
C7_EngineNeverFails ==
    last.engine => (last.outcome = "ok" /\ last.at # "merge_maps")

\* C8: no call requests an access to a cell that conflicts with an access
\* already held on it.
C8_NoConflictingAccess ==
    last.err \notin {"BorrowError", "BorrowMutError"}

\* C9: with `to` an Object, a `from` that is not an Object, a `deep` that is
\* not a Boolean, or a failing `from` / `deep` makes the call fail with that
\* error, without running the engine, the destination as it was and no access
\* held on it.
C9_OperandErrors ==
    (/\ last.outcome # "none"
     /\ last.to.kind = "ref" /\ prev[last.to.cell].kind = "object"
     /\ \/ last.from.kind = "err"
        \/ last.from.kind = "ref" /\ prev[last.from.cell].kind # "object"
        \/ last.deep.kind = "err"
        \/ last.deep.kind = "ref" /\ prev[last.deep.cell].kind # "boolean")
    => (/\ last.outcome = "error"
        /\ last.err \in {"TypeError", "ExpressionError"}
        /\ (last.from.kind = "ref" /\ last.deep.kind # "err")
                => last.err = "TypeError"
        /\ ~last.engine
        /\ Content(heap, last.to.cell) = Content(prev, last.to.cell)
        /\ bor[last.to.cell] = 0)

\* C10: after successful calls, an object that was passed as `from` and none
\* of whose cells was ever passed as `to` has the content it started with.
C10_SourceUnchanged ==
    last.outcome = "ok" =>
        \A c \in everFrom :
            Reach(InitHeap, c) \cap everTo = {} =>
                Content(heap, c) = Content(InitHeap, c)

====
